---- MODULE Spec2Model ----
(***************************************************************************)
(* Model of scripts/destVersionForMac.py: the release workflow of main(),  *)
(* run repeatedly against one release registry.  Text values (header      *)
(* values, tags, release notes, the checksum file) are sequences of        *)
(* one-character strings, so that strip, split, join and parse are         *)
(* computed as the script computes them.                                    *)
(***************************************************************************)
EXTENDS Integers, Sequences, FiniteSets, TLC

\* ------------------------------------------------------------------ bounds
\* Number of invocations of the script that the model follows.
MaxRuns == 3
\* Number of UTC days the invocations are spread over.
MaxDay == 2

\* ------------------------------------------------------------- text helpers
\* Python's None where a string is expected (an attribute without a value).
None == "None"

\* An optional value: absent, or present.
Nothing == <<>>
Some(v) == <<v>>

\* Characters str.strip() removes.
IsSpace(c) == c \in {" ", "\t", "\n"}

RECURSIVE LStripChars(_, _)
\* str.lstrip(chars): drop leading characters that are in chars.
LStripChars(s, chars) ==
    IF s = <<>> THEN <<>>
    ELSE IF Head(s) \in chars THEN LStripChars(Tail(s), chars)
    ELSE s

RECURSIVE RStripChars(_, _)
\* str.rstrip(chars): drop trailing characters that are in chars.
RStripChars(s, chars) ==
    IF s = <<>> THEN <<>>
    ELSE IF s[Len(s)] \in chars THEN RStripChars(SubSeq(s, 1, Len(s) - 1), chars)
    ELSE s

\* str.strip(): drop leading and trailing whitespace.
Strip(s) == RStripChars(LStripChars(s, {" ", "\t", "\n"}), {" ", "\t", "\n"})

\* str.find(c) + 1: the position of the first c in s, 0 when there is none.
Find(s, c) ==
    IF \E i \in 1..Len(s) : s[i] = c
    THEN CHOOSE i \in 1..Len(s) : s[i] = c /\ \A j \in 1..(i - 1) : s[j] # c
    ELSE 0

RECURSIVE SplitLines(_)
\* str.splitlines(): the lines of a text, line ends dropped, no empty last line.
SplitLines(s) ==
    IF s = <<>> THEN <<>>
    ELSE LET i == Find(s, "\n") IN
         IF i = 0 THEN <<s>>
         ELSE <<SubSeq(s, 1, i - 1)>> \o SplitLines(SubSeq(s, i + 1, Len(s)))

RECURSIVE SplitWs(_)
\* str.split(): the whitespace-separated words of s.
SplitWs(s) ==
    LET t == LStripChars(s, {" ", "\t", "\n"}) IN
    IF t = <<>> THEN <<>>
    ELSE LET n == IF \E i \in 1..Len(t) : IsSpace(t[i])
                  THEN (CHOOSE i \in 1..Len(t) :
                            IsSpace(t[i]) /\ \A j \in 1..(i - 1) : ~IsSpace(t[j])) - 1
                  ELSE Len(t)
         IN <<SubSeq(t, 1, n)>> \o SplitWs(SubSeq(t, n + 1, Len(t)))

RECURSIVE JoinLines(_)
\* "\n".join(lines)
JoinLines(lines) ==
    IF lines = <<>> THEN <<>>
    ELSE IF Len(lines) = 1 THEN lines[1]
    ELSE lines[1] \o <<"\n">> \o JoinLines(Tail(lines))

\* dict.get(key, ""): a dictionary is a function from keys to values.
Get(d, key) == IF key \in DOMAIN d THEN d[key] ELSE <<>>

\* The empty dictionary {}.
EmptyDict == [k \in {} |-> <<>>]

\* Python's truth value of a string: non-empty.
Truthy(s) == s # <<>>

\* One decimal digit as a character.
DigitChar(d) == <<"0","1","2","3","4","5","6","7","8","9">>[d + 1]

RECURSIVE ZeroPad(_, _)
\* strftime's zero-padded decimal field of the given width.
ZeroPad(n, width) ==
    IF width = 0 THEN <<>>
    ELSE ZeroPad(n \div 10, width - 1) \o <<DigitChar(n % 10)>>

\* ------------------------------------------------------------ the script
\* parse_release_body(body): the "Key: Value" lines of a release body.
RECURSIVE ParseLines(_, _)
ParseLines(lines, info) ==
    IF lines = <<>> THEN info
    ELSE LET line == Head(lines)
             i == Find(line, ":")
         IN IF i = 0 THEN ParseLines(Tail(lines), info)
            ELSE LET key == Strip(LStripChars(SubSeq(line, 1, i - 1), {"-", " "}))
                     value == Strip(SubSeq(line, i + 1, Len(line)))
                 IN ParseLines(Tail(lines),
                        [k \in DOMAIN info \cup {key} |->
                            IF k = key THEN value ELSE info[k]])

parse_release_body(body) == ParseLines(SplitLines(body), EmptyDict)

\* build_release_notes(...): the text of the release notes.
build_release_notes(tag, link, md5, sha, size, last_modified) ==
    LET lines ==
          << <<"W","e","C","h","a","t"," ","f","o","r"," ","M","a","c"," ","a","u","t","o","m","a","t","i","c"," ","r","e","l","e","a","s","e">>,
             <<>>,
             <<"D","o","w","n","l","o","a","d"," ","a","n","d"," ","i","n","t","e","g","r","i","t","y"," ","d","e","t","a","i","l","s"," ","a","r","e"," ","b","e","l","o","w",".">>,
             <<>>,
             <<"R","e","l","e","a","s","e"," ","d","e","t","a","i","l","s">>,
             <<"-"," ","D","e","s","t","V","e","r","s","i","o","n",":"," ">> \o tag,
             <<>>,
             <<"S","o","u","r","c","e"," ","a","n","d"," ","c","h","e","c","k","s","u","m","s">>,
             <<"-"," ","D","o","w","n","l","o","a","d","F","r","o","m",":"," ">> \o link,
             <<"-"," ","M","d","5",":"," ">> \o md5,
             <<"-"," ","S","h","a","2","5","6",":"," ">> \o sha >>
          \o (IF Truthy(size)
              THEN << <<"-"," ","C","o","n","t","e","n","t","L","e","n","g","t","h",":"," ">> \o size >> ELSE <<>>)
          \o (IF Truthy(last_modified)
              THEN << <<"-"," ","L","a","s","t","M","o","d","i","f","i","e","d",":"," ">> \o last_modified >> ELSE <<>>)
    IN JoinLines(lines) \o <<"\n">>

\* datetime.now(timezone.utc) on day number d of the model's calendar.
UtcNow(d) == [Y |-> 2024, m |-> 1, d |-> 8 + d, H |-> 7, M |-> 5, S |-> 9]

\* strftime("%Y%m%d")
StrfYmd(t) == ZeroPad(t.Y, 4) \o ZeroPad(t.m, 2) \o ZeroPad(t.d, 2)

\* strftime("%Y-%m-%d %H:%M:%S")
StrfStamp(t) ==
    ZeroPad(t.Y, 4) \o <<"-">> \o ZeroPad(t.m, 2) \o <<"-">> \o ZeroPad(t.d, 2)
    \o <<" ">> \o ZeroPad(t.H, 2) \o <<":">> \o ZeroPad(t.M, 2) \o <<":">>
    \o ZeroPad(t.S, 2)

\* write_sha_file(...): the text written to the checksum file.
write_sha_file(tag, link, sha, md5, size, last_modified, now) ==
    LET lines ==
          << <<"D","e","s","t","V","e","r","s","i","o","n",":"," ">> \o tag,
             <<"M","d","5",":"," ">> \o md5,
             <<"S","h","a","2","5","6",":"," ">> \o sha >>
          \o (IF Truthy(size)
              THEN << <<"C","o","n","t","e","n","t","L","e","n","g","t","h",":"," ">> \o size >> ELSE <<>>)
          \o (IF Truthy(last_modified)
              THEN << <<"L","a","s","t","M","o","d","i","f","i","e","d",":"," ">> \o last_modified >> ELSE <<>>)
          \o << <<"U","p","d","a","t","e","T","i","m","e",":"," ">> \o StrfStamp(now) \o <<" ","(","U","T","C",")">>,
                <<"D","o","w","n","l","o","a","d","F","r","o","m",":"," ">> \o link >>
    IN JoinLines(lines) \o <<"\n">>

\* str.lower() on the letters the model's texts use.
LowerChar(c) ==
    LET up == <<"A","B","C","D","E","F","G","H","I","J","K","L","M",
                "N","O","P","Q","R","S","T","U","V","W","X","Y","Z">>
        lo == <<"a","b","c","d","e","f","g","h","i","j","k","l","m",
                "n","o","p","q","r","s","t","u","v","w","x","y","z">>
    IN IF \E i \in 1..26 : up[i] = c THEN lo[CHOOSE i \in 1..26 : up[i] = c] ELSE c

Lower(s) == [i \in 1..Len(s) |-> LowerChar(s[i])]

\* The elements of a sequence.
Range(s) == {s[i] : i \in 1..Len(s)}

\* main: the FORCE_RELEASE environment value read as a boolean.
ParseForce(env) == Lower(Strip(env)) \in { <<"1">>, <<"t","r","u","e">>, <<"y","e","s">>, <<"o","n">> }

RECURSIVE ParseTags(_, _)
\* DownloadLinkParser.handle_starttag over the start tags of the page, in order.
ParseTags(tags, link) ==
    IF tags = <<>> THEN link
    ELSE LET t == Head(tags)
             attr(k) == IF k \in DOMAIN t.attrs /\ t.attrs[k] # None
                        THEN t.attrs[k] ELSE <<>>
         IN IF t.tag # "a" \/ Truthy(link) THEN ParseTags(Tail(tags), link)
            ELSE IF <<"d","o","w","n","l","o","a","d","-","b","u","t","t","o","n">> \in Range(SplitWs(attr("class")))
                 THEN ParseTags(Tail(tags), Strip(attr("href")))
                 ELSE ParseTags(Tail(tags), link)

\* get_tag_from_plist(mount_dir): the tag, or the error raised.  plist is the
\* Info.plist of the mounted volume (Nothing when the file is missing).
get_tag_from_plist(plist) ==
    IF plist = Nothing THEN [err |-> "RuntimeError: Info.plist not found", tag |-> <<>>]
    ELSE LET data == plist[1]
             field(k) == Strip(IF k \in DOMAIN data THEN data[k] ELSE <<>>)
             short_version == field("CFBundleShortVersionString")
             build == field("CFBundleVersion")
             version == field("WeChatBundleVersion")
         IN IF ~Truthy(short_version)
            THEN [err |-> "RuntimeError: CFBundleShortVersionString not found", tag |-> <<>>]
            ELSE IF ~Truthy(build)
            THEN [err |-> "RuntimeError: CFBundleVersion not found", tag |-> <<>>]
            ELSE IF Truthy(version)
            THEN [err |-> "none", tag |-> version]
            ELSE [err |-> "none", tag |-> short_version \o <<"+","b","u","i","l","d",".">> \o build]

\* -------------------------------------------------------- the environment
\* Values the FORCE_RELEASE environment variable takes (unset reads as "").
EnvValues == { <<>>, <<"0">>, <<" ","O","n">>, <<"1">> }

\* Pages the vendor site serves, as the start tags the HTML parser sees.
Pages ==
    { << [tag |-> "div", attrs |-> ("class" :> <<"d","o","w","n","l","o","a","d","-","b","u","t","t","o","n">>)],
         [tag |-> "a", attrs |-> ("class" :> <<"b","t","n"," ","d","o","w","n","l","o","a","d","-","b","u","t","t","o","n">> @@ "href" :> <<" ","h",":","/","x"," ">>)] >>,
      << [tag |-> "a", attrs |-> ("class" :> <<"d","o","w","n","l","o","a","d","-","b","u","t","t","o","n">> @@ "href" :> None)],
         [tag |-> "a", attrs |-> ("class" :> <<"d","o","w","n","l","o","a","d","-","b","u","t","t","o","n">> @@ "href" :> <<"h",":","/","x">>)],
         [tag |-> "a", attrs |-> ("class" :> <<"d","o","w","n","l","o","a","d","-","b","u","t","t","o","n">> @@ "href" :> <<"h",":","/","y">>)] >>,
      << [tag |-> "a", attrs |-> ("class" :> <<"d","o","w","n","l","o","a","d","-","b","u","t","t","o","n","s">> @@ "href" :> <<"h",":","/","x">>)] >> }

\* The disk images the vendor serves: the content (id) and the Info.plist inside.
\* "R" is a rebuilt image of the version of "A" that carries no unified
\* version; "C" lacks the build number.
Artifacts ==
    { [id |-> "A", plist |-> Some("CFBundleShortVersionString" :> <<"1">> @@
                                   "CFBundleVersion" :> <<"7">> @@
                                   "WeChatBundleVersion" :> <<"1","+","b","u","i","l","d",".","7">>)],
      [id |-> "R", plist |-> Some("CFBundleShortVersionString" :> <<"1">> @@
                                   "CFBundleVersion" :> <<"7"," ">>)],
      [id |-> "C", plist |-> Some("CFBundleShortVersionString" :> <<"1">>)] }

\* The MD5 the vendor's storage reports for a content.
Md5Of(id) == CASE id = "A" -> <<"a","1">> [] id = "R" -> <<"a","9">> [] OTHER -> <<"c","3">>

\* compute_sha256(file_path): the digest of the file's content.
compute_sha256(file) ==
    CASE file.id = "A" -> <<"5","a">> [] file.id = "R" -> <<"5","9">> [] OTHER -> <<"5","c">>

\* The header sets a HEAD response for the artifact carries.
HeadResponses(a) ==
    { (<<"X","-","C","o","s","-","M","e","t","a","-","M","d","5">> :> Md5Of(a.id) \o <<" ">>) @@
      (<<"C","o","n","t","e","n","t","-","L","e","n","g","t","h">> :> <<"9">>) @@
      (<<"L","a","s","t","-","M","o","d","i","f","i","e","d">> :> <<"M","o","n"," ","1",":","0","2">>),
      (<<"S","e","r","v","e","r">> :> <<"c","o","s">>) }

\* fetch_head_metadata: the dictionary built from a response's headers.
HeadersOf(resp) ==
    [k \in {Lower(h) : h \in DOMAIN resp} |->
        Strip(resp[CHOOSE h \in DOMAIN resp : Lower(h) = k])]

\* ------------------------------------------------------------------ state
VARIABLES
    releases,      \* the registry: the releases published so far, oldest first
    day,           \* the UTC day of the current invocation
    runs,          \* invocations of the script started so far
    mounted,       \* the disk image is attached to the system
    workdir,       \* BASE_DIR exists
    pc,            \* position in main()
    force_release, \* main: force_release
    vendor,        \* the artifact the vendor serves during this invocation
    download_link, \* main: download_link
    headers,       \* main: headers
    head_attempt,  \* fetch_head_metadata: failed attempts of the running call
    latest_info,   \* main: latest_info
    dl_results,    \* download_with_retry: outcome of each wget attempt of the last call
    dmg_path,      \* the file at TEMP_DIR/WeChatMac.dmg (Nothing: absent)
    mount_dir,     \* main: mount_dir
    tag,           \* main: tag
    sha256_sum,    \* main: sha256_sum
    final_dmg,     \* the file version_dir/WeChatMac-{tag}.dmg
    sha_file,      \* the file version_dir/WeChatMac-{tag}.dmg.sha256
    created,       \* the arguments of the gh release create call (Nothing: not called)
    exc,           \* the exception propagating out of main ("none": none)
    retval,        \* main's return value (Nothing: has not returned)
    exit_code,     \* the process exit status (Nothing: still running)
    calls,         \* how often this invocation called download, mount, detach, cleanup, publish
    info           \* what happened in this invocation: probe failures, outcome

globals == <<releases, day, runs>>
system == <<mounted, workdir>>
fetched == <<force_release, vendor, download_link, headers, head_attempt, latest_info>>
acquired == <<dl_results, dmg_path, mount_dir, tag>>
assets == <<sha256_sum, final_dmg, sha_file, created>>
result == <<exc, retval, exit_code>>
history == <<calls, info>>
vars == <<globals, system, pc, fetched, acquired, assets, result, history>>

\* main: the values read out of headers and latest_info.
remote_md5 == Get(headers, <<"x","-","c","o","s","-","m","e","t","a","-","m","d","5">>)
remote_size == Get(headers, <<"c","o","n","t","e","n","t","-","l","e","n","g","t","h">>)
remote_last_modified == Get(headers, <<"l","a","s","t","-","m","o","d","i","f","i","e","d">>)
latest_md5 == Get(latest_info, <<"M","d","5">>)
latest_sha256 == Get(latest_info, <<"S","h","a","2","5","6">>)

NoCalls == [download |-> 0, mount |-> 0, detach |-> 0, cleanup |-> 0, publish |-> 0]
NoInfo == [head_failed |-> FALSE, latest_rc |-> Nothing, attached |-> FALSE,
           outcome |-> "none"]

Init ==
    /\ releases = <<>> /\ day = 1 /\ runs = 0
    /\ mounted = FALSE /\ workdir = FALSE
    /\ pc = "idle" /\ force_release = FALSE /\ vendor = Nothing
    /\ download_link = <<>> /\ headers = EmptyDict /\ head_attempt = 0
    /\ latest_info = EmptyDict /\ dl_results = <<>> /\ dmg_path = Nothing
    /\ mount_dir = <<>> /\ tag = <<>> /\ sha256_sum = <<>>
    /\ final_dmg = Nothing /\ sha_file = Nothing /\ created = Nothing
    /\ exc = "none" /\ retval = Nothing /\ exit_code = Nothing
    /\ calls = NoCalls /\ info = NoInfo

\* raise: the exception leaves the try block, control goes to finally.
Raise(e) == exc' = e /\ pc' = "finally"

\* return 0 inside the try block: control goes to finally.
Return0(how) ==
    /\ retval' = Some(0) /\ pc' = "finally"
    /\ info' = [info EXCEPT !.outcome = how]

\* The process is started, on the same UTC day as the last invocation or a
\* later one, with FORCE_RELEASE drawn from envs: main() up to the
\* force_release log line.
StartRunWith(envs) ==
    /\ pc \in {"idle", "exited"}
    /\ runs < MaxRuns
    /\ \E env \in envs, a \in Artifacts, d \in day..MaxDay :
          /\ force_release' = ParseForce(env)
          /\ vendor' = Some(a)
          /\ day' = d
    /\ runs' = runs + 1
    /\ workdir' = TRUE
    /\ pc' = "link"
    /\ download_link' = <<>> /\ headers' = EmptyDict /\ head_attempt' = 0
    /\ latest_info' = EmptyDict /\ dl_results' = <<>> /\ dmg_path' = Nothing
    /\ mount_dir' = <<>> /\ tag' = <<>> /\ sha256_sum' = <<>>
    /\ final_dmg' = Nothing /\ sha_file' = Nothing /\ created' = Nothing
    /\ exc' = "none" /\ retval' = Nothing /\ exit_code' = Nothing
    /\ calls' = NoCalls /\ info' = NoInfo
    /\ UNCHANGED <<releases, mounted>>

StartRun == StartRunWith(EnvValues)

\* Step 1: fetch_download_link().
FetchDownloadLink ==
    /\ pc = "link"
    /\ \/ \E page \in Pages :
            LET link == ParseTags(page, <<>>) IN
            IF ~Truthy(link)
            THEN Raise("RuntimeError: Download link not found")
                 /\ UNCHANGED download_link
            ELSE download_link' = link /\ pc' = "head" /\ UNCHANGED exc
       \/ Raise("URLError") /\ UNCHANGED download_link
    /\ UNCHANGED <<globals, system, force_release, vendor, headers, head_attempt,
                   latest_info, acquired, assets, retval, exit_code, history>>

\* fetch_head_metadata: the number of HEAD requests the loop allows.
head_attempts == 2

\* Variant of HeadExhausted that re-raises the last error, as download_with_retry does.
HeadExhaustedRaises ==
    /\ Raise("URLError")
    /\ info' = [info EXCEPT !.head_failed = TRUE]
    /\ UNCHANGED headers

\* fetch_head_metadata: what the function returns once every attempt failed.
HeadExhausted ==
    /\ headers' = EmptyDict
    /\ info' = [info EXCEPT !.head_failed = TRUE]
    /\ pc' = "latest"
    /\ UNCHANGED exc

\* Step 2: one pass of the attempt loop of fetch_head_metadata(download_link).
FetchHeadAttempt ==
    /\ pc = "head"
    /\ \/ \E resp \in HeadResponses(vendor[1]) :
            /\ headers' = HeadersOf(resp)
            /\ head_attempt' = 0
            /\ pc' = "latest"
            /\ UNCHANGED <<info, exc>>
       \/ IF head_attempt + 1 < head_attempts
          THEN head_attempt' = head_attempt + 1 /\ UNCHANGED <<headers, pc, info, exc>>
          ELSE head_attempt' = 0 /\ HeadExhausted
    /\ UNCHANGED <<globals, system, force_release, vendor, download_link,
                   latest_info, acquired, assets, retval, exit_code, calls>>

\* The tags of the releases in the registry.
RegistryTags == {releases[i].tag : i \in 1..Len(releases)}

\* get_latest_release_info: the result for an exit status and output of gh.
LatestInfoOf(returncode, stdout) ==
    IF returncode # 0 \/ stdout = <<>> THEN EmptyDict
    ELSE parse_release_body(stdout)

\* Step 3: get_latest_release_info().
GetLatestReleaseInfo ==
    /\ pc = "latest"
    /\ \E rc \in (IF releases = <<>> THEN {1} ELSE {0, 1}) :
          LET stdout == IF rc = 0
                        THEN releases[Len(releases)].body \o <<"\n">>
                        ELSE <<"r","e","l","e","a","s","e"," ","n","o","t"," ","f","o","u","n","d">>
          IN /\ latest_info' = LatestInfoOf(rc, stdout)
             /\ info' = [info EXCEPT !.latest_rc = Some(rc)]
    /\ pc' = "cmp_md5"
    /\ UNCHANGED <<globals, system, force_release, vendor, download_link, headers,
                   head_attempt, acquired, assets, result, calls>>

\* Variant of Md5Matches that compares against the wrong recorded checksum.
Md5MatchesSha256 ==
    Truthy(remote_md5) /\ Truthy(latest_md5) /\ remote_md5 = latest_sha256

\* main: the MD5 of the HEAD probe matches the latest release's.
Md5Matches == Truthy(remote_md5) /\ Truthy(latest_md5) /\ remote_md5 = latest_md5

\* Step 3, the decision: skip the download when the MD5 matches.
CompareMd5 ==
    /\ pc = "cmp_md5"
    /\ IF Md5Matches /\ ~force_release
       THEN Return0("skip_md5")
       ELSE pc' = "download" /\ UNCHANGED <<retval, info>>
    /\ UNCHANGED <<globals, system, fetched, acquired, assets, exc, exit_code, calls>>

\* download_with_retry: the number of wget runs the loop allows.
attempts == 2

\* Variant of DownloadReturns that does not check the exit status of wget.
DownloadReturnsUnchecked(wget) == wget \in {"ok", "fail"}

\* download_with_retry: the loop is left by return after a successful wget run.
DownloadReturns(wget) == wget = "ok"

\* Step 4: one pass of the attempt loop of download_with_retry(download_link, dmg_path).
DownloadAttempt ==
    /\ pc = "download"
    /\ calls' = [calls EXCEPT !.download = IF dl_results = <<>> THEN @ + 1 ELSE @]
    /\ \E wget \in {"ok", "fail"} :
          /\ dl_results' = Append(dl_results, wget)
          /\ IF DownloadReturns(wget)
             THEN /\ dmg_path' = vendor
                  /\ pc' = "mount"
                  /\ UNCHANGED exc
             ELSE /\ UNCHANGED dmg_path
                  /\ IF Len(dl_results') < attempts
                     THEN UNCHANGED <<pc, exc>>
                     ELSE Raise("CalledProcessError: wget")
    /\ UNCHANGED <<globals, system, fetched, mount_dir, tag, assets, retval,
                   exit_code, info>>

\* Step 5: mount_dmg(dmg_path).
MountDmg ==
    /\ pc = "mount"
    /\ calls' = [calls EXCEPT !.mount = @ + 1]
    /\ dl_results' = <<>>
    /\ \/ /\ mounted' = TRUE
          /\ mount_dir' = <<"/","V","o","l","u","m","e","s","/","W","e","C","h","a","t">>
          /\ info' = [info EXCEPT !.attached = TRUE]
          /\ pc' = "get_tag"
          /\ UNCHANGED exc
       \/ /\ Raise("CalledProcessError: hdiutil attach")
          /\ UNCHANGED <<mounted, mount_dir, info>>
       \/ /\ Raise("RuntimeError: Failed to mount DMG")
          /\ UNCHANGED <<mounted, mount_dir, info>>
    /\ UNCHANGED <<globals, workdir, fetched, dmg_path, tag, assets,
                   retval, exit_code>>

\* Step 5: get_tag_from_plist(mount_dir) on the mounted image.
GetTagFromPlist ==
    /\ pc = "get_tag"
    /\ LET r == get_tag_from_plist(dmg_path[1].plist) IN
       IF r.err # "none"
       THEN Raise(r.err) /\ UNCHANGED tag
       ELSE tag' = r.tag /\ pc' = "detach" /\ UNCHANGED exc
    /\ UNCHANGED <<globals, system, fetched, dl_results, dmg_path, mount_dir,
                   assets, retval, exit_code, history>>

\* detach_dmg(mount_dir): hdiutil detach; its exit status is not checked.
detach_dmg ==
    /\ mounted' = FALSE
    /\ calls' = [calls EXCEPT !.detach = @ + 1]

\* Step 5: detach_dmg(mount_dir); mount_dir = "".
DetachAfterTag ==
    /\ pc = "detach"
    /\ detach_dmg
    /\ mount_dir' = <<>>
    /\ pc' = "prepare"
    /\ UNCHANGED <<globals, workdir, fetched, dl_results, dmg_path, tag, assets,
                   result, info>>

\* The name of the copied disk image, WeChatMac-{tag}.dmg.
DmgName(t) == <<"W","e","C","h","a","t","M","a","c","-">> \o t \o <<".","d","m","g">>

\* Step 6: copy the image to the version directory, hash it, write the checksum file.
PrepareAssets ==
    /\ pc = "prepare"
    /\ final_dmg' = Some([name |-> DmgName(tag), content |-> dmg_path[1]])
    /\ sha256_sum' = compute_sha256(dmg_path[1])
    /\ sha_file' = Some([name |-> DmgName(tag) \o <<".","s","h","a","2","5","6">>,
                         text |-> write_sha_file(tag, download_link, sha256_sum',
                                     remote_md5, remote_size, remote_last_modified,
                                     UtcNow(day))])
    /\ pc' = "cmp_sha"
    /\ UNCHANGED <<globals, system, fetched, acquired, created, result, history>>

\* main: the SHA256 fallback match against the latest release.
Sha256Matches == ~Truthy(latest_md5) /\ Truthy(latest_sha256) /\ sha256_sum = latest_sha256

\* Step 6, the decision: skip the release when the SHA256 matches.
CompareSha256 ==
    /\ pc = "cmp_sha"
    /\ IF Sha256Matches /\ ~force_release
       THEN Return0("skip_sha")
       ELSE pc' = "resolve" /\ UNCHANGED <<retval, info>>
    /\ UNCHANGED <<globals, system, fetched, acquired, assets, exc, exit_code, calls>>

\* tag_exists(tag): gh release view <tag> exits 0 exactly when the release exists.
tag_exists(t) == t \in RegistryTags

\* main: the tag the release is created under.
ResolvedTag(t, now) == IF tag_exists(t) THEN t \o <<"_">> \o StrfYmd(now) ELSE t

\* Step 6: resolve the release tag.
ResolveTag ==
    /\ pc = "resolve"
    /\ tag' = ResolvedTag(tag, UtcNow(day))
    /\ pc' = "publish"
    /\ UNCHANGED <<globals, system, fetched, dl_results, dmg_path, mount_dir,
                   assets, result, history>>

\* Step 7: write the release notes and run gh release create.
\* gh refuses to create a release whose tag already has one.
Publish ==
    /\ pc = "publish"
    /\ calls' = [calls EXCEPT !.publish = @ + 1]
    /\ LET notes_content == build_release_notes(tag, download_link, remote_md5,
                                sha256_sum, remote_size, remote_last_modified)
           title == <<"W","e","c","h","a","t"," ","F","o","r"," ","M","a","c"," ">> \o tag
           request == [tag |-> tag, assets |-> <<final_dmg[1], sha_file[1]>>,
                       body |-> notes_content, title |-> title]
       IN /\ created' = Some(request)
          /\ \/ /\ ~tag_exists(tag)
                /\ releases' = Append(releases, [tag |-> tag, body |-> notes_content])
                /\ Return0("published")
                /\ UNCHANGED exc
             \/ /\ Raise("CalledProcessError: gh release create")
                /\ UNCHANGED <<releases, retval, info>>
    /\ UNCHANGED <<day, runs, system, fetched, acquired, sha256_sum,
                   final_dmg, sha_file, exit_code>>

\* Variant of FinallyDetach that leaves the volume alone.
FinallyNoDetach ==
    /\ pc = "finally"
    /\ pc' = "rmtree"
    /\ UNCHANGED <<globals, system, fetched, acquired, assets, result, history>>

\* finally: if mount_dir: detach_dmg(mount_dir)
FinallyDetach ==
    /\ pc = "finally"
    /\ IF Truthy(mount_dir) THEN detach_dmg ELSE UNCHANGED <<mounted, calls>>
    /\ pc' = "rmtree"
    /\ UNCHANGED <<globals, workdir, fetched, acquired, assets, result, info>>

\* finally: shutil.rmtree(BASE_DIR, ignore_errors=True); log("Cleanup completed.")
FinallyRmtree ==
    /\ pc = "rmtree"
    /\ workdir' = FALSE
    /\ dmg_path' = Nothing /\ final_dmg' = Nothing /\ sha_file' = Nothing
    /\ calls' = [calls EXCEPT !.cleanup = @ + 1]
    /\ pc' = "exit"
    /\ UNCHANGED <<globals, mounted, fetched, dl_results, mount_dir, tag,
                   sha256_sum, created, result, info>>

\* Variant of ExitStatus without the except clause of __main__.
ExitStatusNoExcept == IF retval # Nothing THEN retval[1] ELSE 0

\* __main__: the status main() leaves the process with.
ExitStatus == IF exc # "none" THEN 1 ELSE retval[1]

\* __main__: sys.exit(main()), or sys.exit(1) when main raised.
ProcessExit ==
    /\ pc = "exit"
    /\ exit_code' = Some(ExitStatus)
    /\ pc' = "exited"
    /\ UNCHANGED <<globals, system, fetched, acquired, assets, exc, retval, history>>

\* Every step of an invocation after its start.
Steps ==
    \/ FetchDownloadLink
    \/ FetchHeadAttempt
    \/ GetLatestReleaseInfo
    \/ CompareMd5
    \/ DownloadAttempt
    \/ MountDmg
    \/ GetTagFromPlist
    \/ DetachAfterTag
    \/ PrepareAssets
    \/ CompareSha256
    \/ ResolveTag
    \/ Publish
    \/ FinallyDetach
    \/ FinallyRmtree
    \/ ProcessExit

Next == StartRun \/ Steps

\* Invocations of the script against one registry, FORCE_RELEASE set or not.
Spec == Init /\ [][Next]_vars

\* Invocations in which FORCE_RELEASE is unset or set to a value that reads false.
StartRunUnforced == StartRunWith({e \in EnvValues : ~ParseForce(e)})

NextUnforced == StartRunUnforced \/ Steps

SpecUnforced == Init /\ [][NextUnforced]_vars

\* ------------------------------------------------ tag derivation on its own
\* The values a field of Info.plist takes; a field may also be missing.
FieldValues == { <<>>, <<" ">>, <<"1">>, <<" ","3"," ">> }

PlistKeys == {"CFBundleShortVersionString", "CFBundleVersion", "WeChatBundleVersion"}

\* Every Info.plist over these fields.
Plists == { [k \in K |-> f[k]] : K \in SUBSET PlistKeys, f \in [PlistKeys -> FieldValues] }

\* main() after mount_dmg returned, for a downloaded image with any Info.plist,
\* or none: the HEAD probe found no headers and there is no earlier release.
TagInit ==
    /\ releases = <<>> /\ day = 1 /\ runs = 1
    /\ mounted = TRUE /\ workdir = TRUE
    /\ pc = "get_tag" /\ force_release = FALSE
    /\ \E plist \in {Some(p) : p \in Plists} \cup {Nothing} :
          /\ vendor = Some([id |-> "A", plist |-> plist])
          /\ dmg_path = vendor
    /\ download_link = <<"h",":","/","x">> /\ headers = EmptyDict /\ head_attempt = 0
    /\ latest_info = EmptyDict /\ dl_results = <<>>
    /\ mount_dir = <<"/","V","o","l","u","m","e","s","/","W","e","C","h","a","t">> /\ tag = <<>> /\ sha256_sum = <<>>
    /\ final_dmg = Nothing /\ sha_file = Nothing /\ created = Nothing
    /\ exc = "none" /\ retval = Nothing /\ exit_code = Nothing
    /\ calls = [NoCalls EXCEPT !.download = 1, !.mount = 1]
    /\ info = [NoInfo EXCEPT !.head_failed = TRUE, !.latest_rc = Some(1),
                             !.attached = TRUE]

TagNext == GetTagFromPlist

TagSpec == TagInit /\ [][TagNext]_vars

\* ------------------------------------------------------------------ claims
\* Positions of main() after the MD5 decision of step 3.
AfterMd5Decision == pc \in {"download", "mount", "get_tag", "detach", "prepare",
                            "cmp_sha", "resolve", "publish", "finally", "rmtree",
                            "exit", "exited"}

\* Positions of main() in and after the finally block.
Ending == pc \in {"finally", "rmtree", "exit", "exited"}

\* The value a release body records under a key.
Recorded(body, key) == Get(parse_release_body(body), key)

\* C1: when the MD5 of the HEAD probe and the Md5 recorded by the latest
\* release are both non-empty and equal and the force-release override is
\* false, the run returns 0 as an MD5 skip and exits 0, and neither download
\* nor mount nor publish is ever invoked.
C1_Md5SkipWithoutDownload ==
    (/\ AfterMd5Decision
     /\ remote_md5 # <<>> /\ latest_md5 # <<>> /\ remote_md5 = latest_md5
     /\ ~force_release)
    => /\ Ending
       /\ info.outcome = "skip_md5" /\ retval = Some(0) /\ exc = "none"
       /\ calls.download = 0 /\ calls.mount = 0 /\ calls.publish = 0
       /\ dl_results = <<>> /\ created = Nothing
       /\ (pc = "exited" => exit_code = Some(0))

C1_Witness ==
    /\ pc = "exited" /\ exit_code = Some(0) /\ info.outcome = "skip_md5"
    /\ remote_md5 # <<>> /\ remote_md5 = latest_md5 /\ ~force_release
    /\ calls.download = 0

\* C2: with the force-release override unset in every run, and each run
\* reading the latest release from the registry, publish is never invoked for
\* an artifact whose sha256 is the Sha256 of an already published release.
C2_PublishedOncePerChecksum ==
    (pc = "publish" /\ info.latest_rc = Some(0))
    => \A i \in 1..Len(releases) :
          Recorded(releases[i].body, <<"S","h","a","2","5","6">>) # sha256_sum

\* C3: the tag is the unified version whenever that is non-empty, whatever
\* the other two fields hold; otherwise it is {short}+build.{build} when both
\* are non-empty; otherwise tag derivation fails with an error.  (Fields are
\* taken after stripping, as the script reads them.)
C3_TagDerivation ==
    (pc # "get_tag" /\ dmg_path # Nothing /\ dmg_path[1].plist # Nothing)
    => LET data == dmg_path[1].plist[1]
           field(k) == Strip(IF k \in DOMAIN data THEN data[k] ELSE <<>>)
           short == field("CFBundleShortVersionString")
           build == field("CFBundleVersion")
           unified == field("WeChatBundleVersion")
       IN IF unified # <<>> THEN exc = "none" /\ tag = unified
          ELSE IF short # <<>> /\ build # <<>>
          THEN exc = "none" /\ tag = short \o <<"+","b","u","i","l","d",".">> \o build
          ELSE exc # "none" /\ tag = <<>>

\* The tag get_tag_from_plist derived from the downloaded image.
DerivedTag == get_tag_from_plist(dmg_path[1].plist).tag

\* C4: when publish is about to be invoked, its tag does not exist in the
\* registry; if the derived tag exists there, the tag is the derived tag with
\* "_" and the UTC date appended, not the derived tag.
C4_PublishTagIsNew ==
    pc = "publish"
    => /\ \A i \in 1..Len(releases) : releases[i].tag # tag
       /\ (\E i \in 1..Len(releases) : releases[i].tag = DerivedTag)
             => /\ tag = DerivedTag \o <<"_">> \o StrfYmd(UtcNow(day))
                /\ tag # DerivedTag

C6_Sha256SkipWithoutMd5 ==
    (/\ pc = "exited"
     /\ remote_md5 = <<>> /\ latest_sha256 # <<>> /\ sha256_sum = latest_sha256
     /\ ~force_release)
    => exit_code = Some(0) /\ calls.publish = 0 /\ calls.download = 1

\* The errors each step of main() raises.
DownloadErrors == {"CalledProcessError: wget"}
PublishErrors == {"CalledProcessError: gh release create"}
FatalErrors ==
    {"RuntimeError: Download link not found", "URLError",
     "CalledProcessError: hdiutil attach", "RuntimeError: Failed to mount DMG",
     "RuntimeError: Info.plist not found",
     "RuntimeError: CFBundleShortVersionString not found",
     "RuntimeError: CFBundleVersion not found"}
    \cup DownloadErrors \cup PublishErrors

\* C7: the exit code is 0 exactly when the run ended in a publish or a skip,
\* and 1 when a step raised; after a download or publish error no later step
\* of the workflow has run, and cleanup is complete when the process exits.
C7_ExitCodes ==
    /\ (pc = "exited"
          => /\ exit_code \in {Some(0), Some(1)}
             /\ (exit_code = Some(0)
                   <=> info.outcome \in {"published", "skip_md5", "skip_sha"})
             /\ (exit_code = Some(1) <=> exc \in FatalErrors)
             /\ calls.cleanup = 1 /\ ~workdir)
    /\ (exc # "none" => Ending /\ info.outcome = "none" /\ retval = Nothing)
    /\ (exc \in DownloadErrors
          => /\ calls.mount = 0 /\ calls.publish = 0 /\ ~info.attached
             /\ tag = <<>> /\ sha256_sum = <<>> /\ created = Nothing)
    /\ (exc \in PublishErrors => calls.publish = 1 /\ created # Nothing)

C7_Witness ==
    /\ pc = "exited" /\ exit_code = Some(1) /\ exc \in PublishErrors
    /\ calls.cleanup = 1

\* C8: a HEAD probe that failed twice, or a latest-release lookup that
\* failed, yields an empty result and does not fail the run: the run goes on
\* to the download step, and it raises only in or after that step.
C8_ProbeFailuresAreEmptyResults ==
    /\ (info.head_failed
          => headers = EmptyDict /\ remote_md5 = <<>> /\ remote_size = <<>>
             /\ remote_last_modified = <<>>)
    /\ (info.latest_rc = Some(1)
          => latest_info = EmptyDict /\ latest_md5 = <<>> /\ latest_sha256 = <<>>)
    /\ ((info.head_failed \/ info.latest_rc = Some(1))
          => /\ info.outcome # "skip_md5"
             /\ (pc \in {"latest", "cmp_md5", "download"} => exc = "none")
             /\ (Ending => calls.download = 1)
             /\ (exc # "none" =>
                   exc \in FatalErrors \ {"RuntimeError: Download link not found",
                                           "URLError"}))

C8_Witness ==
    /\ pc = "exited" /\ exit_code = Some(0) /\ info.outcome = "published"
    /\ info.head_failed /\ info.latest_rc = Some(1) /\ Len(releases) > 1

\* C9: download_with_retry runs wget at most twice, returns at the first run
\* that succeeds, runs it again only after a failure, raises exactly when
\* both runs failed, and while it is running another attempt is possible.
C9_DownloadAttempts ==
    /\ Len(dl_results) <= 2
    /\ calls.download <= 1
    /\ \A i \in 1..(Len(dl_results) - 1) : dl_results[i] = "fail"
    /\ (pc = "mount" => dl_results # <<>> /\ dl_results[Len(dl_results)] = "ok"
                        /\ dmg_path = vendor)
    /\ (exc \in DownloadErrors <=> dl_results = <<"fail", "fail">>)
    /\ (pc = "download"
          => /\ Len(dl_results) < 2
             /\ \A i \in 1..Len(dl_results) : dl_results[i] = "fail"
             /\ ENABLED DownloadAttempt)

C9_Witness == pc = "mount" /\ dl_results = <<"fail", "ok">>

\* C10: the checksum file handed to publish is written for the tag of the
\* release: its DestVersion, its name and the name of the image carry the tag
\* the release is created under, which is also the DestVersion of the notes.
C10_SidecarCarriesReleaseTag ==
    created # Nothing
    => LET request == created[1] IN
       /\ Recorded(request.body, <<"D","e","s","t","V","e","r","s","i","o","n">>) = request.tag
       /\ Recorded(request.assets[2].text, <<"D","e","s","t","V","e","r","s","i","o","n">>) = request.tag
       /\ request.assets[1].name = DmgName(request.tag)
       /\ request.assets[2].name = DmgName(request.tag) \o <<".","s","h","a","2","5","6">>
====
